---- MODULE Spec2Model ----
(***************************************************************************)
(* Model of src/real_time_chat/main.py: the registry of active users, the  *)
(* room membership kept by the Socket.IO server, and the five event        *)
(* handlers (connect, disconnect, join, leave, message).                   *)
(*                                                                         *)
(* One action is one handler run from its first line to its return, with   *)
(* every emit and every log line it produces.  The handler records the    *)
(* event it served in `inbound`, the payloads it emitted in `outbox` and   *)
(* its log lines in `log`; Flush is the server handing the payloads to the *)
(* transport and becoming ready for the next event (the host dispatches    *)
(* one event at a time).  SpecInterleaved drops that assumption: there the *)
(* handlers that change or read the registry in several statements run in  *)
(* steps, and steps of different handlers alternate.                       *)
(*                                                                         *)
(* datetime.now() is read by the handlers but its value is never tested;   *)
(* every reading is the single instant Now.                                *)
(***************************************************************************)
EXTENDS Naturals, Integers, Sequences, FiniteSets, TLC

\* ---------------------------------------------------------------- bounds
\* Number of connection ids (request.sid values) the transport hands out.
MaxSid == 2

\* Number of handlers the host has in flight at a time.
MaxInFlight == 2

\* Number of keys inserted into active_users while handlers run in steps.
MaxInserts == 3

\* ------------------------------------------------------------- constants
\* Config.CHAT_ROOMS
CHAT_ROOMS == {"General", "Random", "Tech", "Games"}

\* data.get("room", "General")
DefaultRoom == "General"

\* data.get("type", "message")
DefaultType == "message"

\* A room name a client may send that is not configured.
OtherRoom == "Lobby"

\* Every chat room name a client may send.
RoomNames == CHAT_ROOMS \cup {OtherRoom}

SidPool == <<"sid1", "sid2", "sid3", "sid4">>
SIDS == {SidPool[i] : i \in 1..MaxSid}

\* Every room the Socket.IO server keeps: the rooms clients name and, for
\* each connection, the room named by its sid that emit(room=sid) addresses.
ServerRooms == RoomNames \cup SIDS

\* Values generate_guest_username can return ("Guest" + HHMM + 4 digits);
\* two different draws may collide.
GuestNames == {"Guest1111", "Guest2222"}

\* session without the key "username"
NoName == "<no username>"
\* a user record without the key "room"
NoRoom == "<no room>"
\* dict.get(key) on a missing key returns None
None == "<None>"
Now == "<now>"

\* ----------------------------------------------------------------- inputs
\* A dict value is a set holding the value of the key, empty when the key is
\* missing.
Space == " "
Letter == "a"
MsgTexts == {<<>>, <<Space, Space>>, <<Space, Letter, Space>>}

\* "General" is named by leaving the key out.
RoomInputs == {{}, {"Random"}, {OtherRoom}}
TypeInputs == {{}, {"private"}, {"image"}}
MsgInputs == {{}} \cup {{m} : m \in MsgTexts}
TargetInputs == {{}, {""}} \cup {{n} : n \in GuestNames}

NoData == [room |-> {}, type |-> {}, msg |-> {}, target |-> {}]
RoomData == {[NoData EXCEPT !.room = r] : r \in RoomInputs}

\* on_leave does not test the room: besides the names above a client may
\* name a connection's own room (a sid) or send "room": null.
LeaveRoomInputs == RoomInputs \cup {{s} : s \in SIDS} \cup {{None}}
LeaveData == {[NoData EXCEPT !.room = r] : r \in LeaveRoomInputs}
MessageData == [room : RoomInputs, type : TypeInputs, msg : MsgInputs,
                target : TargetInputs]

\* dict.get(key, default)
Get(opt, default) == IF opt = {} THEN default ELSE CHOOSE v \in opt : TRUE

\* str.strip(): drop leading and trailing whitespace
RECURSIVE LStrip(_)
LStrip(m) == IF m # <<>> /\ Head(m) = Space THEN LStrip(Tail(m)) ELSE m

RECURSIVE RStrip(_)
RStrip(m) ==
    IF m # <<>> /\ m[Len(m)] = Space THEN RStrip(SubSeq(m, 1, Len(m) - 1)) ELSE m

\* Strip that leaves the text as it is.
Strip_none(m) == m

Strip(m) == RStrip(LStrip(m))

\* ------------------------------------------------------------------ state
VARIABLES
    connected,     \* sids of the open connections, in the order accepted
    session,       \* session["username"] of each sid, NoName when missing
    active_users,  \* the dict active_users, in insertion order
    rooms,         \* Socket.IO room name -> sids that are in the room
    inbound,       \* the event the last handler served, Idle after Flush
    outbox,        \* the payloads that handler emitted, in order
    log,           \* the lines that handler logged, in order
    joined,        \* history: the join served last and what preceded it
    prior,         \* history: the served connection's rooms before the handler
    tasks,         \* the handlers in flight between two of their steps
    table          \* the key table of the dict active_users

core == <<connected, session, active_users, rooms>>
vars == <<connected, session, active_users, rooms, inbound, outbox, log, joined,
          prior, tasks, table>>

Idle == [event |-> "idle", sid |-> "", data |-> NoData]

Range(f) == {f[i] : i \in DOMAIN f}

Remove(seq, x) == SelectSeq(seq, LAMBDA y : y # x)

\* ------------------------------------------------- the dict active_users
Has(reg, sid) == \E i \in 1..Len(reg) : reg[i].sid = sid

IndexOf(reg, sid) == CHOOSE i \in 1..Len(reg) : reg[i].sid = sid

\* active_users[sid] = {"username": ..., "connected_at": ...}
Put(reg, sid, name) ==
    LET rec == [sid |-> sid, username |-> name, room |-> NoRoom,
                connected_at |-> Now]
    IN  IF Has(reg, sid) THEN [reg EXCEPT ![IndexOf(reg, sid)] = rec]
        ELSE Append(reg, rec)

\* Del without the deletion: the entry of a closed connection stays.
Del_stale(reg, sid) == reg

\* Del that drops the newest entry when the sid has none (popitem).
Del_popitem(reg, sid) ==
    IF Has(reg, sid)
    THEN LET k == IndexOf(reg, sid)
         IN  SubSeq(reg, 1, k - 1) \o SubSeq(reg, k + 1, Len(reg))
    ELSE SubSeq(reg, 1, Len(reg) - 1)

\* if request.sid in active_users: del active_users[request.sid]
Del(reg, sid) ==
    IF Has(reg, sid)
    THEN LET k == IndexOf(reg, sid)
         IN  SubSeq(reg, 1, k - 1) \o SubSeq(reg, k + 1, Len(reg))
    ELSE reg

\* The key table of the dict: its entries in insertion order, a deleted
\* entry leaving a hole, and the number of slots still free.  An insert that
\* finds no free slot rebuilds the table without the holes, in a size taken
\* from the number of entries.  The layout is recorded (`on`) where handlers
\* run in steps: only an iterator that is resumed after the dict changed
\* can tell it from the insertion order.
Hole == "<hole>"

\* calculate_log2_keysize: the least power of two that holds minsize | 8
KeySize(minsize) ==
    LET m == IF (minsize \div 8) % 2 = 1 THEN minsize ELSE minsize + 8
    IN  CHOOSE size \in {8, 16, 32, 64} :
            /\ size >= m
            /\ \A t \in {8, 16, 32, 64} : t >= m => size <= t

\* USABLE_FRACTION
Usable(size) == (2 * size) \div 3

\* the dict as line 42 makes it; its first insert gets a table of 8 slots
NewTable == [on |-> TRUE, slots |-> <<>>, usable |-> Usable(8), inserts |-> 0]
NoTable == [NewTable EXCEPT !.on = FALSE]

\* active_users[sid] = {...} seen from the key table; reg is the dict
\* before the assignment
TableInsert(kt, reg, sid) ==
    IF ~kt.on \/ Has(reg, sid) THEN kt
    ELSE IF kt.usable <= 0
    THEN LET size == KeySize(3 * Len(reg))
         IN  [kt EXCEPT !.slots = Append([i \in 1..Len(reg) |-> reg[i].sid],
                                         sid),
                        !.usable = Usable(size) - Len(reg) - 1,
                        !.inserts = @ + 1]
    ELSE [kt EXCEPT !.slots = Append(@, sid), !.usable = @ - 1,
                    !.inserts = @ + 1]

\* del active_users[sid] seen from the key table
TableDelete(kt, sid) ==
    [kt EXCEPT !.slots = [i \in 1..Len(@) |-> IF @[i] = sid THEN Hole
                                               ELSE @[i]]]

\* active_users[sid]["room"] = room
SetRoom(reg, sid, room) == [reg EXCEPT ![IndexOf(reg, sid)].room = room]

\* PopRoom that keeps the field.
PopRoom_keep(reg, sid) == reg

\* if request.sid in active_users: active_users[request.sid].pop("room", None)
PopRoom(reg, sid) ==
    IF Has(reg, sid) THEN [reg EXCEPT ![IndexOf(reg, sid)].room = NoRoom]
    ELSE reg

\* Usernames that lists the newest Session first.
Usernames_newest_first(reg) ==
    [i \in 1..Len(reg) |-> reg[Len(reg) + 1 - i].username]

\* [user["username"] for user in active_users.values()]
Usernames(reg) == [i \in 1..Len(reg) |-> reg[i].username]

\* the entries with user_data["username"] == target_user
Matches(reg, target) == {i \in 1..Len(reg) : reg[i].username = target}

\* for sid, user_data in active_users.items(): if ...: emit(...); return
FirstMatch(reg, target) ==
    LET i == CHOOSE j \in Matches(reg, target) :
                 \A k \in Matches(reg, target) : j <= k
    IN  reg[i].sid

\* RoomAvailable without the check.
RoomAvailable_any(room) == TRUE

\* if room not in app.config["CHAT_ROOMS"]
RoomAvailable(room) == room \in CHAT_ROOMS

\* ------------------------------------------------------ Socket.IO server
\* JoinRoom that forgets to enter the room.
JoinRoom_noop(rms, sid, room) == rms

\* JoinRoom that leaves every other room first.
JoinRoom_exclusive(rms, sid, room) ==
    [r \in DOMAIN rms |-> IF r = room THEN rms[r] \cup {sid}
                          ELSE rms[r] \ {sid}]

\* the members of a room; a room the server does not keep has none
Members(rms, room) == IF room \in DOMAIN rms THEN rms[room] ELSE {}

\* the server accepts a connection: it enters the room named by its sid
Accept(rms, sid) == [rms EXCEPT ![sid] = @ \cup {sid}]

\* join_room(room)
JoinRoom(rms, sid, room) == [rms EXCEPT ![room] = @ \cup {sid}]

\* LeaveRoom that forgets to leave the room.
LeaveRoom_noop(rms, sid, room) == rms

\* leave_room(room)
LeaveRoom(rms, sid, room) ==
    IF room \in DOMAIN rms THEN [rms EXCEPT ![room] = @ \ {sid}] ELSE rms

\* the server forgets a closed connection in every room
LeaveAll(rms, sid) == [r \in DOMAIN rms |-> rms[r] \ {sid}]

ToAll == [kind |-> "broadcast", name |-> ""]
ToRoom(room) == [kind |-> "room", name |-> room]
ToSid(sid) == [kind |-> "sid", name |-> sid]

\* emit(..., room=room) without broadcast: room=None is the sender
EmitTo(room, sid) == IF room = None THEN ToSid(sid) ELSE ToRoom(room)

\* the connections an emit reaches: broadcast=True, room=<room>, room=<sid>
Recipients(to, conn, rms) ==
    CASE to.kind = "broadcast" -> Range(conn)
      [] OTHER -> Members(rms, to.name)

Emit(event, payload, to, conn, rms) ==
    [event |-> event, payload |-> payload, to |-> to,
     recipients |-> Recipients(to, conn, rms)]

Line(level, text) == [level |-> level, text |-> text]

Served(event, sid, data) == [event |-> event, sid |-> sid, data |-> data]

\* ------------------------------------------------------------ the emits
\* emit("active_users", {"users": users}, broadcast=True)
SnapshotOutbox(users, conn, rms) ==
    <<Emit("active_users", [users |-> users], ToAll, conn, rms)>>

\* emit("active_users", {"users": [...]}, broadcast=True)
PresenceOutbox(reg, conn, rms) == SnapshotOutbox(Usernames(reg), conn, rms)

\* DisconnectOutbox that also tells the default room that someone left.
DisconnectOutbox_notice(reg, conn, rms) ==
    <<Emit("status",
           [msg |-> <<"unknown", "has left the room">>, type |-> "leave",
            timestamp |-> Now],
           [kind |-> "room", name |-> DefaultRoom], conn, rms)>>
    \o PresenceOutbox(reg, conn, rms)

\* what disconnect emits: the active_users broadcast and nothing else
DisconnectOutbox(reg, conn, rms) == PresenceOutbox(reg, conn, rms)

\* emit("status", {..., "type": "join", ...}, room=room)
JoinOutbox(username, room, conn, rms) ==
    <<Emit("status",
           [msg |-> <<username, "has joined the room">>, type |-> "join",
            timestamp |-> Now],
           ToRoom(room), conn, rms)>>

\* LeaveOutbox that emits before leave_room: the leaver is still a member.
LeaveOutbox_emit_first(username, sid, room, conn, before, rms) ==
    <<Emit("status",
           [msg |-> <<username, "has left the room">>, type |-> "leave",
            timestamp |-> Now],
           EmitTo(room, sid), conn, before)>>

\* LeaveOutbox that notifies only when the connection was in the room.
LeaveOutbox_member_only(username, sid, room, conn, before, rms) ==
    IF sid \in Members(before, room)
    THEN <<Emit("status",
                [msg |-> <<username, "has left the room">>, type |-> "leave",
                 timestamp |-> Now],
                EmitTo(room, sid), conn, rms)>>
    ELSE <<>>

\* emit("status", {..., "type": "leave", ...}, room=room); `before` is the
\* room membership before leave_room
LeaveOutbox(username, sid, room, conn, before, rms) ==
    <<Emit("status",
           [msg |-> <<username, "has left the room">>, type |-> "leave",
            timestamp |-> Now],
           EmitTo(room, sid), conn, rms)>>

\* the private branch of handle_messages
PrivateOutbox(username, message, target_user, reg, conn, rms) ==
    IF target_user \in {None, ""} \/ Matches(reg, target_user) = {}
    THEN <<>>
    ELSE <<Emit("private_message",
                [msg |-> message, from |-> username, to |-> target_user,
                 timestamp |-> Now],
                ToSid(FirstMatch(reg, target_user)), conn, rms)>>

\* RoomOutbox that always addresses the default room.
RoomOutbox_default(username, message, room, conn, rms) ==
    IF room \notin CHAT_ROOMS
    THEN <<>>
    ELSE <<Emit("message",
                [msg |-> message, username |-> username, room |-> room,
                 timestamp |-> Now],
                [kind |-> "room", name |-> DefaultRoom], conn, rms)>>

\* the room branch of handle_messages
RoomOutbox(username, message, room, conn, rms) ==
    IF ~RoomAvailable(room)
    THEN <<>>
    ELSE <<Emit("message",
                [msg |-> message, username |-> username, room |-> room,
                 timestamp |-> Now],
                ToRoom(room), conn, rms)>>

\* ------------------------------------------------------------------- Init
\* History of the join served last: who joined which room, the rooms whose
\* broadcasts reached that connection before the join, how many status events
\* the join emitted, and whether the leave of the same room by the same
\* connection has been served right after it.  Recorded only when `on`.
NoJoin == [on |-> TRUE, sid |-> "", room |-> "", before |-> {}, status |-> 0,
           left |-> FALSE]
Untracked == [NoJoin EXCEPT !.on = FALSE]

RoomsOf(rms, sid) == {r \in DOMAIN rms : sid \in rms[r]}

StatusCount(out) == Cardinality({i \in 1..Len(out) : out[i].event = "status"})

\* History of the event being served: the rooms whose broadcasts reached the
\* served connection, and its Session's room, before the handler ran.
NoPrior == [rooms |-> {}, room |-> NoRoom]

PriorOf(sid) ==
    [rooms |-> RoomsOf(rooms, sid),
     room |-> IF Has(active_users, sid)
              THEN active_users[IndexOf(active_users, sid)].room
              ELSE NoRoom]

TrackJoin ==
    joined' =
        IF ~joined.on THEN joined
        ELSE LET room == Get(inbound'.data.room, DefaultRoom)
             IN  CASE inbound'.event = "join" /\ room \in CHAT_ROOMS ->
                        [on |-> TRUE, sid |-> inbound'.sid, room |-> room,
                         before |-> RoomsOf(rooms, inbound'.sid),
                         status |-> StatusCount(outbox'), left |-> FALSE]
                   [] inbound'.event = "leave" /\ inbound'.sid = joined.sid
                      /\ room = joined.room /\ ~joined.left ->
                        [joined EXCEPT !.left = TRUE]
                   [] inbound'.event = "idle" /\ ~joined.left -> joined
                   [] OTHER -> NoJoin

Track ==
    /\ TrackJoin
    /\ prior' = IF inbound'.event = "idle" THEN NoPrior
                ELSE PriorOf(inbound'.sid)

Init ==
    /\ connected = <<>>
    /\ session = [s \in SIDS |-> NoName]
    /\ active_users = <<>>
    /\ rooms = [r \in ServerRooms |-> {}]
    /\ inbound = Idle
    /\ outbox = <<>>
    /\ log = <<>>
    /\ joined = Untracked
    /\ prior = NoPrior
    /\ tasks = {}
    /\ table = NoTable

\* --------------------------------------------------------------- handlers
\* connect(): `existing` is session["username"] as the page load left it,
\* `fresh` the value generate_guest_username returns when it is missing.
connect(s) ==
    /\ inbound = Idle
    /\ s \notin Range(connected)
    /\ \E existing \in GuestNames \cup {NoName}, fresh \in GuestNames :
        LET name == IF existing = NoName THEN fresh ELSE existing
            reg == Put(active_users, s, name)
            conn == Append(connected, s)
        IN  /\ session' = [session EXCEPT ![s] = name]
            /\ connected' = conn
            /\ active_users' = reg
            /\ outbox' = PresenceOutbox(reg, conn, rooms)
            /\ log' = <<Line("info", <<"User Connected", name>>)>>
    /\ inbound' = Served("connect", s, NoData)
    /\ rooms' = Accept(rooms, s)
    /\ table' = TableInsert(table, active_users, s)
    /\ UNCHANGED tasks
    /\ Track

\* disconnect(), then the server's own clean-up of the closed connection.
\* The transport may report the same disconnect again (line 93 allows for it).
disconnect(s) ==
    /\ inbound = Idle
    /\ LET username == IF Has(active_users, s)
                       THEN active_users[IndexOf(active_users, s)].username
                       ELSE None
           reg == Del(active_users, s)
           conn == Remove(connected, s)
           rms == LeaveAll(rooms, s)
       IN  /\ active_users' = reg
           /\ connected' = conn
           /\ rooms' = rms
           /\ session' = [session EXCEPT ![s] = NoName]
           /\ outbox' = DisconnectOutbox(reg, conn, rms)
           /\ log' = <<Line("info", <<"User disconnected",
                                      IF username = None THEN "unknown"
                                      ELSE username>>)>>
    /\ inbound' = Served("disconnect", s, NoData)
    /\ table' = TableDelete(table, s)
    /\ UNCHANGED tasks
    /\ Track

\* on_join(data)
on_join(s) ==
    /\ inbound = Idle
    /\ s \in Range(connected)
    /\ \E data \in RoomData :
        LET username == session[s]
            room == Get(data.room, DefaultRoom)
            rms == JoinRoom(rooms, s, room)
        IN  /\ inbound' = Served("join", s, data)
            /\ IF username = NoName
               THEN \* session["username"] raises KeyError
                    /\ outbox' = <<>>
                    /\ log' = <<Line("error", <<"KeyError", "username">>)>>
                    /\ UNCHANGED <<active_users, rooms>>
               ELSE IF ~RoomAvailable(room)
               THEN /\ outbox' = <<>>
                    /\ log' = <<Line("warning", <<"No room available">>)>>
                    /\ UNCHANGED <<active_users, rooms>>
               ELSE IF ~Has(active_users, s)
               THEN \* join_room done, then active_users[sid] raises KeyError
                    /\ rooms' = rms
                    /\ outbox' = <<>>
                    /\ log' = <<Line("error", <<"KeyError", s>>)>>
                    /\ UNCHANGED active_users
               ELSE /\ rooms' = rms
                    /\ active_users' = SetRoom(active_users, s, room)
                    /\ outbox' = JoinOutbox(username, room, connected, rms)
                    /\ log' = <<Line("info", <<"User has joined room",
                                               username, room>>)>>
    /\ UNCHANGED <<connected, session>>
    /\ UNCHANGED <<tasks, table>>
    /\ Track

\* on_leave(data)
on_leave(s) ==
    /\ inbound = Idle
    /\ s \in Range(connected)
    /\ \E data \in LeaveData :
        LET username == session[s]
            room == Get(data.room, DefaultRoom)
            rms == LeaveRoom(rooms, s, room)
        IN  /\ inbound' = Served("leave", s, data)
            /\ IF username = NoName
               THEN \* session["username"] raises KeyError
                    /\ outbox' = <<>>
                    /\ log' = <<Line("error", <<"KeyError", "username">>)>>
                    /\ UNCHANGED <<active_users, rooms>>
               ELSE /\ rooms' = rms
                    /\ active_users' = PopRoom(active_users, s)
                    /\ outbox' = LeaveOutbox(username, s, room, connected,
                                             rooms, rms)
                    /\ log' = <<Line("info", <<"User has left the room",
                                               username, room>>)>>
    /\ UNCHANGED <<connected, session>>
    /\ UNCHANGED <<tasks, table>>
    /\ Track

\* handle_messages that also enters the room the message addresses.
handle_messages_joining(s) ==
    /\ inbound = Idle
    /\ s \in Range(connected)
    /\ \E data \in MessageData :
        LET room == Get(data.room, DefaultRoom)
            message == Strip(Get(data.msg, <<>>))
            enters == message # <<>> /\ RoomAvailable(room)
        IN  /\ inbound' = Served("message", s, data)
            /\ rooms' = IF enters THEN JoinRoom(rooms, s, room) ELSE rooms
            /\ active_users' = IF enters THEN SetRoom(active_users, s, room)
                               ELSE active_users
            /\ outbox' = IF message = <<>> THEN <<>>
                         ELSE RoomOutbox(session[s], message, room, connected,
                                         rooms')
            /\ log' = <<>>
    /\ UNCHANGED <<connected, session>>
    /\ UNCHANGED <<tasks, table>>
    /\ Track

\* handle_messages(data)
handle_messages(s) ==
    /\ inbound = Idle
    /\ s \in Range(connected)
    /\ \E data \in MessageData :
        LET username == session[s]
            room == Get(data.room, DefaultRoom)
            msg_type == Get(data.type, DefaultType)
            message == Strip(Get(data.msg, <<>>))
            target_user == Get(data.target, None)
            out == IF msg_type = "private"
                   THEN PrivateOutbox(username, message, target_user,
                                      active_users, connected, rooms)
                   ELSE RoomOutbox(username, message, room, connected, rooms)
        IN  /\ inbound' = Served("message", s, data)
            /\ IF username = NoName
               THEN \* session["username"] raises KeyError
                    /\ outbox' = <<>>
                    /\ log' = <<Line("error", <<"KeyError", "username">>)>>
               ELSE IF message = <<>>
               THEN /\ outbox' = <<>>
                    /\ log' = <<>>
               ELSE /\ outbox' = out
                    /\ log' = IF out = <<>> THEN <<>>
                              ELSE IF msg_type = "private"
                              THEN <<Line("info", <<"Private message",
                                                    username, target_user>>)>>
                              ELSE <<Line("info", <<"Message in", room,
                                                    username>>)>>
    /\ UNCHANGED <<connected, session, active_users, rooms>>
    /\ UNCHANGED <<tasks, table>>
    /\ Track

\* The emitted payloads leave the server; it is ready for the next event.
Flush ==
    /\ inbound # Idle
    /\ inbound' = Idle
    /\ outbox' = <<>>
    /\ log' = <<>>
    /\ UNCHANGED <<connected, session, active_users, rooms>>
    /\ UNCHANGED <<tasks, table>>
    /\ Track

Next ==
    \/ \E s \in SIDS : connect(s)
    \/ \E s \in SIDS : disconnect(s)
    \/ \E s \in SIDS : on_join(s)
    \/ \E s \in SIDS : on_leave(s)
    \/ \E s \in SIDS : handle_messages(s)
    \/ Flush

Spec == Init /\ [][Next]_vars

\* The same program with the history of the last join recorded.
InitTracked ==
    /\ connected = <<>>
    /\ session = [s \in SIDS |-> NoName]
    /\ active_users = <<>>
    /\ rooms = [r \in ServerRooms |-> {}]
    /\ inbound = Idle
    /\ outbox = <<>>
    /\ log = <<>>
    /\ joined = NoJoin
    /\ prior = NoPrior
    /\ tasks = {}
    /\ table = NoTable

SpecTracked == InitTracked /\ [][Next]_vars

\* ------------------------------------------------ handlers run in steps
\* No lock protects active_users and the rooms: the host may run a step of
\* another handler between two statements of a handler.  A step is a
\* statement that reads or writes the registry or the rooms, with the
\* statements before it that touch neither; an iteration over the registry
\* is one step per entry.  A step records the event in `inbound` when it
\* emits, logs or ends the handler; the other steps show nothing.  A
\* connection has at most one event handler in flight (kind "event":
\* connect, join, leave, message) and, beside it, its disconnect (kind
\* "close"): the transport may close at any statement, and events the
\* connection sent before the close are still handled until the server has
\* dropped it.
\*
\* A run is a handler in flight: pc is the statement it resumes at, data the
\* event it serves, username and found its local variables (found: the sid
\* the scan matched).  used, pos and acc are its dict iterator: the size of
\* the registry when the iterator was made, the number of slots of the key
\* table it has passed, and the usernames it has read.  did is history:
\* what the handler has done so far ("session": it has written the
\* registry, "room": it has changed a room's member set, "emit": it has
\* emitted).
NoTask == [pc |-> "none", data |-> NoData, username |-> "", found |-> "",
           used |-> 0, pos |-> 0, acc |-> <<>>, did |-> {}]

Task(s, kind) ==
    IF \E t \in tasks : t.sid = s /\ t.kind = kind
    THEN (CHOOSE t \in tasks : t.sid = s /\ t.kind = kind).run
    ELSE NoTask

SetTask(ts, s, kind, run) ==
    {t \in ts : ~(t.sid = s /\ t.kind = kind)}
        \cup (IF run.pc = "none" THEN {}
              ELSE {[sid |-> s, kind |-> kind, run |-> run]})

Resume(s, kind, pc) == SetTask(tasks, s, kind, [Task(s, kind) EXCEPT !.pc = pc])

Done(s, kind) == SetTask(tasks, s, kind, NoTask)

\* the host can start another handler
Free == Cardinality(tasks) < MaxInFlight

\* iter(active_users.values()) and iter(active_users.items())
Iter(run, reg) == [run EXCEPT !.used = Len(reg), !.pos = 0, !.acc = <<>>]

\* the slots behind the iterator's position that hold an entry
Ahead(run, kt) == {i \in (run.pos + 1)..Len(kt.slots) : kt.slots[i] # Hole}

\* next() on the iterator: RuntimeError when the dict has another size than
\* when the iterator was made, or when an entry is found after as many
\* entries as the dict had then have been returned
IterOutcome(run, reg, kt) ==
    IF Len(reg) # run.used THEN "dictionary changed size during iteration"
    ELSE IF Ahead(run, kt) = {} THEN "stop"
    ELSE IF Len(run.acc) = run.used
    THEN "dictionary keys changed during iteration"
    ELSE "entry"

NextSlot(run, kt) ==
    CHOOSE i \in Ahead(run, kt) : \A j \in Ahead(run, kt) : i <= j

NextEntry(run, reg, kt) == reg[IndexOf(reg, kt.slots[NextSlot(run, kt)])]

Advance(run, reg, kt) ==
    [run EXCEPT !.pos = NextSlot(run, kt),
                !.acc = Append(@, NextEntry(run, reg, kt).username)]

\* handle_messages inputs served in steps: a blank msg, a room message to
\* the default room, and a private message to each identity
RouteData ==
    LET text == {<<Space, Letter, Space>>}
    IN  {d \in MessageData :
            \/ d = [NoData EXCEPT !.msg = {<<Space, Space>>}]
            \/ d.msg = text /\ d.type = {} /\ d.target = {} /\ d.room = {}
            \/ /\ d.msg = text /\ d.type = {"private"} /\ d.room = {}
               /\ d.target \in {{n} : n \in GuestNames}}

\* on_join and on_leave inputs served in steps: the default room and, for
\* on_join, a room that is not configured
JoinSteps == {d \in RoomData : d.room \in {{}, {OtherRoom}}}
LeaveSteps == {d \in LeaveData : d.room = {}}

\* the connects that have been accepted and have not reached line 71
Pending == {t \in tasks : t.run.pc \in {"connect_session", "connect_insert"}}

\* the server accepts the connection, enters it into the room named by its
\* sid and calls connect(), line 66
connect_accept(s) ==
    /\ inbound = Idle
    /\ s \notin Range(connected)
    /\ Task(s, "event") = NoTask
    /\ Task(s, "close") = NoTask
    /\ Free
    /\ table.inserts + Cardinality(Pending) < MaxInserts
    /\ connected' = Append(connected, s)
    /\ rooms' = Accept(rooms, s)
    /\ tasks' = SetTask(tasks, s, "event",
                        [NoTask EXCEPT !.pc = "connect_session"])
    /\ UNCHANGED <<inbound, outbox, log>>
    /\ UNCHANGED <<session, active_users>>
    /\ UNCHANGED table
    /\ Track

\* connect(), lines 68-69
connect_session(s) ==
    /\ inbound = Idle
    /\ Task(s, "event").pc = "connect_session"
    /\ \E existing \in GuestNames \cup {NoName}, fresh \in GuestNames :
        LET name == IF existing = NoName THEN fresh ELSE existing
        IN  /\ session' = [session EXCEPT ![s] = name]
            /\ tasks' = SetTask(tasks, s, "event",
                                [Task(s, "event")
                                     EXCEPT !.pc = "connect_insert",
                                            !.username = name])
    /\ UNCHANGED <<inbound, outbox, log>>
    /\ UNCHANGED <<connected, active_users, rooms>>
    /\ UNCHANGED table
    /\ Track

\* connect(), lines 71-74.  Line 72 reads session["username"]: when the
\* connection's disconnect has returned since line 69, the handler either
\* still holds its session and inserts the name, or finds the session
\* emptied, and the KeyError takes lines 83-85.
connect_insert(s) ==
    /\ inbound = Idle
    /\ Task(s, "event").pc = "connect_insert"
    /\ LET run == Task(s, "event")
       IN  \/ /\ active_users' = Put(active_users, s, run.username)
              /\ table' = TableInsert(table, active_users, s)
              /\ tasks' = SetTask(tasks, s, "event",
                                  [run EXCEPT !.pc = "connect_iter",
                                              !.did = @ \cup {"session"}])
              /\ UNCHANGED <<inbound, outbox, log>>
              /\ UNCHANGED <<connected, rooms>>
           \/ /\ session[s] = NoName
              /\ tasks' = Done(s, "event")
              /\ inbound' = Served("connect", s, NoData)
              /\ outbox' = <<>>
              /\ log' = <<Line("error", <<"Connection error", "username">>)>>
              /\ connected' = Remove(connected, s)
              /\ rooms' = LeaveAll(rooms, s)
              /\ UNCHANGED <<active_users, table>>
    /\ UNCHANGED session
    /\ Track

\* connect(), line 79: active_users.values() is handed to the comprehension
connect_iter(s) ==
    /\ inbound = Idle
    /\ Task(s, "event").pc = "connect_iter"
    /\ tasks' = SetTask(tasks, s, "event",
                        [Iter(Task(s, "event"), active_users)
                             EXCEPT !.pc = "connect_next"])
    /\ UNCHANGED <<inbound, outbox, log>>
    /\ UNCHANGED <<connected, session, active_users, rooms>>
    /\ UNCHANGED table
    /\ Track

\* connect(), line 79 once per entry, until the comprehension has its list;
\* on RuntimeError lines 83-85: the handler returns False and the server
\* refuses the connection, whose entry stays in the registry
connect_next(s) ==
    /\ inbound = Idle
    /\ Task(s, "event").pc = "connect_next"
    /\ LET run == Task(s, "event")
           outcome == IterOutcome(run, active_users, table)
       IN  CASE outcome = "entry" ->
                    /\ tasks' = SetTask(tasks, s, "event",
                                        Advance(run, active_users, table))
                    /\ UNCHANGED <<inbound, outbox, log>>
                    /\ UNCHANGED <<connected, rooms>>
             [] outcome = "stop" ->
                    /\ tasks' = Resume(s, "event", "connect_emit")
                    /\ UNCHANGED <<inbound, outbox, log>>
                    /\ UNCHANGED <<connected, rooms>>
             [] OTHER ->
                    /\ tasks' = Done(s, "event")
                    /\ inbound' = Served("connect", s, NoData)
                    /\ outbox' = <<>>
                    /\ log' = <<Line("error", <<"Connection error", outcome>>)>>
                    /\ connected' = Remove(connected, s)
                    /\ rooms' = LeaveAll(rooms, s)
    /\ UNCHANGED <<session, active_users>>
    /\ UNCHANGED table
    /\ Track

\* connect(), lines 77-81: the list the comprehension has built is emitted
connect_emit(s) ==
    /\ inbound = Idle
    /\ Task(s, "event").pc = "connect_emit"
    /\ LET run == Task(s, "event")
       IN  /\ outbox' = SnapshotOutbox(run.acc, connected, rooms)
           /\ tasks' = SetTask(tasks, s, "event",
                               [run EXCEPT !.pc = "connect_log",
                                           !.did = @ \cup {"emit"}])
    /\ inbound' = Served("connect", s, NoData)
    /\ log' = <<>>
    /\ UNCHANGED <<connected, session, active_users, rooms>>
    /\ UNCHANGED table
    /\ Track

\* connect(), line 82, which reads session["username"] again as line 72
\* does; on KeyError lines 83-85
connect_log(s) ==
    /\ inbound = Idle
    /\ Task(s, "event").pc = "connect_log"
    /\ \/ /\ log' = <<Line("info", <<"User Connected",
                                     Task(s, "event").username>>)>>
          /\ UNCHANGED <<connected, rooms>>
       \/ /\ session[s] = NoName
          /\ log' = <<Line("error", <<"Connection error", "username">>)>>
          /\ connected' = Remove(connected, s)
          /\ rooms' = LeaveAll(rooms, s)
    /\ tasks' = Done(s, "event")
    /\ inbound' = Served("connect", s, NoData)
    /\ outbox' = <<>>
    /\ UNCHANGED <<session, active_users>>
    /\ UNCHANGED table
    /\ Track

\* the server hands the close of an open connection to disconnect();
\* lines 92-93
disconnect_test(s) ==
    /\ inbound = Idle
    /\ s \in Range(connected)
    /\ Task(s, "close") = NoTask
    /\ Free
    /\ tasks' = SetTask(tasks, s, "close",
                        [NoTask EXCEPT !.pc = IF Has(active_users, s)
                                              THEN "disconnect_read"
                                              ELSE "disconnect_iter",
                                       !.username = None])
    /\ UNCHANGED <<inbound, outbox, log>>
    /\ UNCHANGED <<connected, session, active_users, rooms>>
    /\ UNCHANGED table
    /\ Track

\* disconnect(), line 94; on KeyError lines 107-109
disconnect_read(s) ==
    /\ inbound = Idle
    /\ Task(s, "close").pc = "disconnect_read"
    /\ IF Has(active_users, s)
       THEN /\ tasks' = SetTask(tasks, s, "close",
                                [Task(s, "close") EXCEPT
                                   !.pc = "disconnect_del",
                                   !.username =
                                      active_users[IndexOf(active_users, s)]
                                          .username])
            /\ UNCHANGED <<inbound, outbox, log>>
       ELSE /\ tasks' = Resume(s, "close", "disconnect_drop")
            /\ inbound' = Served("disconnect", s, NoData)
            /\ outbox' = <<>>
            /\ log' = <<Line("error", <<"Disconnection error", s>>)>>
    /\ UNCHANGED <<connected, session, active_users, rooms>>
    /\ UNCHANGED table
    /\ Track

\* disconnect(), line 95; on KeyError lines 107-109
disconnect_del(s) ==
    /\ inbound = Idle
    /\ Task(s, "close").pc = "disconnect_del"
    /\ IF Has(active_users, s)
       THEN /\ active_users' = Del(active_users, s)
            /\ table' = TableDelete(table, s)
            /\ tasks' = SetTask(tasks, s, "close",
                                [Task(s, "close") EXCEPT
                                   !.pc = "disconnect_iter",
                                   !.did = @ \cup {"session"}])
            /\ UNCHANGED <<inbound, outbox, log>>
       ELSE /\ tasks' = Resume(s, "close", "disconnect_drop")
            /\ inbound' = Served("disconnect", s, NoData)
            /\ outbox' = <<>>
            /\ log' = <<Line("error", <<"Disconnection error", s>>)>>
            /\ UNCHANGED <<active_users, table>>
    /\ UNCHANGED <<connected, session, rooms>>
    /\ Track

\* disconnect(), line 99: active_users.values() is handed to the
\* comprehension
disconnect_iter(s) ==
    /\ inbound = Idle
    /\ Task(s, "close").pc = "disconnect_iter"
    /\ tasks' = SetTask(tasks, s, "close",
                        [Iter(Task(s, "close"), active_users)
                             EXCEPT !.pc = "disconnect_next"])
    /\ UNCHANGED <<inbound, outbox, log>>
    /\ UNCHANGED <<connected, session, active_users, rooms>>
    /\ UNCHANGED table
    /\ Track

\* disconnect(), line 99 once per entry, until the comprehension has its
\* list; on RuntimeError lines 107-109
disconnect_next(s) ==
    /\ inbound = Idle
    /\ Task(s, "close").pc = "disconnect_next"
    /\ LET run == Task(s, "close")
           outcome == IterOutcome(run, active_users, table)
       IN  CASE outcome = "entry" ->
                    /\ tasks' = SetTask(tasks, s, "close",
                                        Advance(run, active_users, table))
                    /\ UNCHANGED <<inbound, outbox, log>>
             [] outcome = "stop" ->
                    /\ tasks' = Resume(s, "close", "disconnect_emit")
                    /\ UNCHANGED <<inbound, outbox, log>>
             [] OTHER ->
                    /\ tasks' = Resume(s, "close", "disconnect_drop")
                    /\ inbound' = Served("disconnect", s, NoData)
                    /\ outbox' = <<>>
                    /\ log' = <<Line("error", <<"Disconnection error",
                                                outcome>>)>>
    /\ UNCHANGED <<connected, session, active_users, rooms>>
    /\ UNCHANGED table
    /\ Track

\* disconnect(), lines 97-101: the list the comprehension has built is
\* emitted.  The closing connection receives nothing.
disconnect_emit(s) ==
    /\ inbound = Idle
    /\ Task(s, "close").pc = "disconnect_emit"
    /\ LET run == Task(s, "close")
       IN  /\ outbox' = SnapshotOutbox(run.acc, Remove(connected, s), rooms)
           /\ tasks' = SetTask(tasks, s, "close",
                               [run EXCEPT !.pc = "disconnect_log",
                                           !.did = @ \cup {"emit"}])
    /\ inbound' = Served("disconnect", s, NoData)
    /\ log' = <<>>
    /\ UNCHANGED <<connected, session, active_users, rooms>>
    /\ UNCHANGED table
    /\ Track

\* disconnect(), lines 103-106
disconnect_log(s) ==
    /\ inbound = Idle
    /\ Task(s, "close").pc = "disconnect_log"
    /\ log' = <<Line("info", <<"User disconnected",
                               IF Task(s, "close").username = None
                               THEN "unknown"
                               ELSE Task(s, "close").username>>)>>
    /\ tasks' = Resume(s, "close", "disconnect_drop")
    /\ inbound' = Served("disconnect", s, NoData)
    /\ outbox' = <<>>
    /\ UNCHANGED <<connected, session, active_users, rooms>>
    /\ UNCHANGED table
    /\ Track

\* the handler has returned: the server forgets the closed connection
disconnect_drop(s) ==
    /\ inbound = Idle
    /\ Task(s, "close").pc = "disconnect_drop"
    /\ connected' = Remove(connected, s)
    /\ rooms' = LeaveAll(rooms, s)
    /\ session' = [session EXCEPT ![s] = NoName]
    /\ tasks' = Done(s, "close")
    /\ inbound' = Served("disconnect", s, NoData)
    /\ outbox' = <<>>
    /\ log' = <<>>
    /\ UNCHANGED active_users
    /\ UNCHANGED table
    /\ Track

\* the server hands a join of an open connection to on_join; the handler
\* holds the session of the connection as it is then
join_call(s) ==
    /\ inbound = Idle
    /\ s \in Range(connected)
    /\ Task(s, "event") = NoTask
    /\ Free
    /\ \E data \in JoinSteps :
        tasks' = SetTask(tasks, s, "event",
                         [NoTask EXCEPT !.pc = "join_enter",
                                        !.data = data,
                                        !.username = session[s]])
    /\ UNCHANGED <<inbound, outbox, log>>
    /\ UNCHANGED <<connected, session, active_users, rooms>>
    /\ UNCHANGED table
    /\ Track

\* on_join(data), lines 116-123.  Line 116 reads session["username"]: when
\* the connection's disconnect has returned since the call, the handler
\* either still holds its session, or finds the session emptied, and the
\* KeyError takes lines 137-138.
join_enter(s) ==
    /\ inbound = Idle
    /\ Task(s, "event").pc = "join_enter"
    /\ LET run == Task(s, "event")
           data == run.data
           username == run.username
           room == Get(data.room, DefaultRoom)
       IN  \/ /\ session[s] = NoName
              /\ inbound' = Served("join", s, data)
              /\ outbox' = <<>>
              /\ log' = <<Line("error", <<"KeyError", "username">>)>>
              /\ tasks' = Done(s, "event")
              /\ UNCHANGED rooms
           \/ /\ username # NoName
              /\ IF ~RoomAvailable(room)
                 THEN /\ inbound' = Served("join", s, data)
                      /\ outbox' = <<>>
                      /\ log' = <<Line("warning", <<"No room available">>)>>
                      /\ tasks' = Done(s, "event")
                      /\ UNCHANGED rooms
                 ELSE /\ rooms' = JoinRoom(rooms, s, room)
                      /\ UNCHANGED <<inbound, outbox, log>>
                      /\ tasks' = SetTask(tasks, s, "event",
                                          [run EXCEPT
                                             !.pc = "join_set",
                                             !.did = IF s \in Members(rooms, room)
                                                     THEN {} ELSE {"room"}])
    /\ UNCHANGED <<connected, session, active_users>>
    /\ UNCHANGED table
    /\ Track

\* on_join(data), line 124
join_set(s) ==
    /\ inbound = Idle
    /\ Task(s, "event").pc = "join_set"
    /\ LET data == Task(s, "event").data
           room == Get(data.room, DefaultRoom)
       IN  IF ~Has(active_users, s)
           THEN \* active_users[request.sid] raises KeyError
                /\ inbound' = Served("join", s, data)
                /\ log' = <<Line("error", <<"KeyError", s>>)>>
                /\ tasks' = Done(s, "event")
                /\ UNCHANGED <<active_users, outbox>>
           ELSE /\ active_users' = SetRoom(active_users, s, room)
                /\ tasks' = SetTask(tasks, s, "event",
                                    [Task(s, "event")
                                         EXCEPT !.pc = "join_emit",
                                                !.did = @ \cup {"session"}])
                /\ UNCHANGED <<inbound, outbox, log>>
    /\ UNCHANGED <<connected, session, rooms>>
    /\ UNCHANGED table
    /\ Track

\* on_join(data), lines 126-136
join_emit(s) ==
    /\ inbound = Idle
    /\ Task(s, "event").pc = "join_emit"
    /\ LET data == Task(s, "event").data
           room == Get(data.room, DefaultRoom)
           username == Task(s, "event").username
       IN  /\ inbound' = Served("join", s, data)
           /\ outbox' = JoinOutbox(username, room, connected, rooms)
           /\ log' = <<Line("info", <<"User has joined room",
                                      username, room>>)>>
    /\ tasks' = Done(s, "event")
    /\ UNCHANGED <<connected, session, active_users, rooms>>
    /\ UNCHANGED table
    /\ Track

\* the server hands a leave of an open connection to on_leave
leave_call(s) ==
    /\ inbound = Idle
    /\ s \in Range(connected)
    /\ Task(s, "event") = NoTask
    /\ Free
    /\ \E data \in LeaveSteps :
        tasks' = SetTask(tasks, s, "event",
                         [NoTask EXCEPT !.pc = "leave_exit",
                                        !.data = data,
                                        !.username = session[s]])
    /\ UNCHANGED <<inbound, outbox, log>>
    /\ UNCHANGED <<connected, session, active_users, rooms>>
    /\ UNCHANGED table
    /\ Track

\* on_leave(data), lines 145-148; line 145 reads session["username"] as
\* line 116 does, on KeyError lines 162-163
leave_exit(s) ==
    /\ inbound = Idle
    /\ Task(s, "event").pc = "leave_exit"
    /\ LET run == Task(s, "event")
           data == run.data
           room == Get(data.room, DefaultRoom)
       IN  \/ /\ session[s] = NoName
              /\ inbound' = Served("leave", s, data)
              /\ outbox' = <<>>
              /\ log' = <<Line("error", <<"KeyError", "username">>)>>
              /\ tasks' = Done(s, "event")
              /\ UNCHANGED rooms
           \/ /\ run.username # NoName
              /\ rooms' = LeaveRoom(rooms, s, room)
              /\ UNCHANGED <<inbound, outbox, log>>
              /\ tasks' = SetTask(tasks, s, "event",
                                  [run EXCEPT
                                     !.pc = "leave_test",
                                     !.did = IF s \in Members(rooms, room)
                                             THEN {"room"} ELSE {}])
    /\ UNCHANGED <<connected, session, active_users>>
    /\ UNCHANGED table
    /\ Track

\* on_leave(data), line 149
leave_test(s) ==
    /\ inbound = Idle
    /\ Task(s, "event").pc = "leave_test"
    /\ tasks' = Resume(s, "event", IF Has(active_users, s) THEN "leave_pop"
                                   ELSE "leave_emit")
    /\ UNCHANGED <<inbound, outbox, log>>
    /\ UNCHANGED <<connected, session, active_users, rooms>>
    /\ UNCHANGED table
    /\ Track

\* on_leave(data), line 150
leave_pop(s) ==
    /\ inbound = Idle
    /\ Task(s, "event").pc = "leave_pop"
    /\ IF ~Has(active_users, s)
       THEN \* active_users[request.sid] raises KeyError
            /\ inbound' = Served("leave", s, Task(s, "event").data)
            /\ log' = <<Line("error", <<"KeyError", s>>)>>
            /\ tasks' = Done(s, "event")
            /\ UNCHANGED <<active_users, outbox>>
       ELSE /\ active_users' = PopRoom(active_users, s)
            /\ tasks' = SetTask(tasks, s, "event",
                                [Task(s, "event")
                                     EXCEPT !.pc = "leave_emit",
                                            !.did = @ \cup {"session"}])
            /\ UNCHANGED <<inbound, outbox, log>>
    /\ UNCHANGED <<connected, session, rooms>>
    /\ UNCHANGED table
    /\ Track

\* on_leave(data), lines 152-161
leave_emit(s) ==
    /\ inbound = Idle
    /\ Task(s, "event").pc = "leave_emit"
    /\ LET data == Task(s, "event").data
           room == Get(data.room, DefaultRoom)
           username == Task(s, "event").username
       IN  /\ inbound' = Served("leave", s, data)
           /\ outbox' = LeaveOutbox(username, s, room, connected, rooms, rooms)
           /\ log' = <<Line("info", <<"User has left the room",
                                      username, room>>)>>
    /\ tasks' = Done(s, "event")
    /\ UNCHANGED <<connected, session, active_users, rooms>>
    /\ UNCHANGED table
    /\ Track

\* the server hands a message of an open connection to handle_messages
message_call(s) ==
    /\ inbound = Idle
    /\ s \in Range(connected)
    /\ Task(s, "event") = NoTask
    /\ Free
    /\ \E data \in RouteData :
        tasks' = SetTask(tasks, s, "event",
                         [NoTask EXCEPT !.pc = "message_route",
                                        !.data = data,
                                        !.username = session[s]])
    /\ UNCHANGED <<inbound, outbox, log>>
    /\ UNCHANGED <<connected, session, active_users, rooms>>
    /\ UNCHANGED table
    /\ Track

\* handle_messages(data), lines 178-194 up to active_users.items(), or the
\* room branch, lines 211-227; line 178 reads session["username"] as line
\* 116 does, on KeyError lines 229-230
message_route(s) ==
    /\ inbound = Idle
    /\ Task(s, "event").pc = "message_route"
    /\ LET run == Task(s, "event")
           data == run.data
           username == run.username
           room == Get(data.room, DefaultRoom)
           msg_type == Get(data.type, DefaultType)
           message == Strip(Get(data.msg, <<>>))
           target_user == Get(data.target, None)
           out == RoomOutbox(username, message, room, connected, rooms)
       IN  \/ /\ session[s] = NoName
              /\ inbound' = Served("message", s, data)
              /\ outbox' = <<>>
              /\ log' = <<Line("error", <<"KeyError", "username">>)>>
              /\ tasks' = Done(s, "event")
           \/ /\ username # NoName
              /\ IF \/ message = <<>>
                    \/ msg_type = "private" /\ target_user \in {None, ""}
                 THEN /\ inbound' = Served("message", s, data)
                      /\ outbox' = <<>>
                      /\ log' = <<>>
                      /\ tasks' = Done(s, "event")
                 ELSE IF msg_type = "private"
                 THEN /\ UNCHANGED <<inbound, outbox, log>>
                      /\ tasks' = SetTask(tasks, s, "event",
                                          [Iter(run, active_users)
                                               EXCEPT !.pc = "private_next"])
                 ELSE /\ inbound' = Served("message", s, data)
                      /\ outbox' = out
                      /\ log' = IF out = <<>> THEN <<>>
                                ELSE <<Line("info", <<"Message in", room,
                                                      username>>)>>
                      /\ tasks' = Done(s, "event")
    /\ UNCHANGED <<connected, session, active_users, rooms>>
    /\ UNCHANGED table
    /\ Track

\* handle_messages(data), lines 194-195 once per entry; on RuntimeError
\* lines 229-230
private_next(s) ==
    /\ inbound = Idle
    /\ Task(s, "event").pc = "private_next"
    /\ LET run == Task(s, "event")
           outcome == IterOutcome(run, active_users, table)
           target_user == Get(run.data.target, None)
       IN  CASE outcome = "entry" ->
                     /\ UNCHANGED <<inbound, log>>
                     /\ tasks' =
                          IF NextEntry(run, active_users, table).username = target_user
                          THEN SetTask(tasks, s, "event",
                                       [run EXCEPT
                                          !.pc = "private_emit",
                                          !.found =
                                             NextEntry(run, active_users, table).sid])
                          ELSE SetTask(tasks, s, "event",
                                       Advance(run, active_users, table))
             [] outcome = "stop" ->
                     /\ UNCHANGED <<inbound, log>>
                     /\ tasks' = Done(s, "event")
             [] OTHER ->
                     /\ inbound' = Served("message", s, run.data)
                     /\ log' = <<Line("error", <<outcome>>)>>
                     /\ tasks' = Done(s, "event")
    /\ outbox' = <<>>
    /\ UNCHANGED <<connected, session, active_users, rooms>>
    /\ UNCHANGED table
    /\ Track

\* handle_messages(data), lines 196-209
private_emit(s) ==
    /\ inbound = Idle
    /\ Task(s, "event").pc = "private_emit"
    /\ LET run == Task(s, "event")
           message == Strip(Get(run.data.msg, <<>>))
           target_user == Get(run.data.target, None)
       IN  /\ inbound' = Served("message", s, run.data)
           /\ outbox' = <<Emit("private_message",
                               [msg |-> message, from |-> run.username,
                                to |-> target_user, timestamp |-> Now],
                               ToSid(run.found), connected, rooms)>>
           /\ log' = <<Line("info", <<"Private message",
                                      run.username, target_user>>)>>
    /\ tasks' = Done(s, "event")
    /\ UNCHANGED <<connected, session, active_users, rooms>>
    /\ UNCHANGED table
    /\ Track

NextInterleaved ==
    \/ \E s \in SIDS : connect_accept(s)
    \/ \E s \in SIDS : connect_session(s)
    \/ \E s \in SIDS : connect_insert(s)
    \/ \E s \in SIDS : connect_iter(s)
    \/ \E s \in SIDS : connect_next(s)
    \/ \E s \in SIDS : connect_emit(s)
    \/ \E s \in SIDS : connect_log(s)
    \/ \E s \in SIDS : disconnect_test(s)
    \/ \E s \in SIDS : disconnect_read(s)
    \/ \E s \in SIDS : disconnect_del(s)
    \/ \E s \in SIDS : disconnect_iter(s)
    \/ \E s \in SIDS : disconnect_next(s)
    \/ \E s \in SIDS : disconnect_emit(s)
    \/ \E s \in SIDS : disconnect_log(s)
    \/ \E s \in SIDS : disconnect_drop(s)
    \/ \E s \in SIDS : join_call(s)
    \/ \E s \in SIDS : join_enter(s)
    \/ \E s \in SIDS : join_set(s)
    \/ \E s \in SIDS : join_emit(s)
    \/ \E s \in SIDS : leave_call(s)
    \/ \E s \in SIDS : leave_exit(s)
    \/ \E s \in SIDS : leave_test(s)
    \/ \E s \in SIDS : leave_pop(s)
    \/ \E s \in SIDS : leave_emit(s)
    \/ \E s \in SIDS : message_call(s)
    \/ \E s \in SIDS : message_route(s)
    \/ \E s \in SIDS : private_next(s)
    \/ \E s \in SIDS : private_emit(s)
    \/ Flush

InitInterleaved ==
    /\ connected = <<>>
    /\ session = [s \in SIDS |-> NoName]
    /\ active_users = <<>>
    /\ rooms = [r \in ServerRooms |-> {}]
    /\ inbound = Idle
    /\ outbox = <<>>
    /\ log = <<>>
    /\ joined = Untracked
    /\ prior = NoPrior
    /\ tasks = {}
    /\ table = NewTable

SpecInterleaved == InitInterleaved /\ [][NextInterleaved]_vars

\* ================================================================ claims
\* Vocabulary of the claims, stated on the served event and the state the
\* handler left.
EventRoom(ev) == IF ev.data.room = {} THEN "General"
                 ELSE CHOOSE r \in ev.data.room : TRUE

Configured(room) == room \in {"General", "Random", "Tech", "Games"}

\* msg is missing, empty or whitespace only
BlankMsg(ev) == \A m \in ev.data.msg : \A i \in 1..Len(m) : m[i] = Space

IsPrivate(ev) == ev.data.type = {"private"}

HasTarget(ev) == \E t \in ev.data.target : t # ""

TargetOf(ev) == CHOOSE t \in ev.data.target : TRUE

Count(seq, x) == Cardinality({i \in 1..Len(seq) : seq[i] = x})

Position(seq, x) == CHOOSE i \in 1..Len(seq) : seq[i] = x

Open == Range(connected)

\* the sids of the live Sessions whose identity is `name`
Holders(name) == {active_users[i].sid : i \in Matches(active_users, name)}

SessionRoom(sid) == active_users[Position([i \in 1..Len(active_users) |->
                                              active_users[i].sid], sid)].room

\* the event names a room: a string, as the wire format has it, not null
NamesRoom(ev) == EventRoom(ev) # "<None>"

PrivateCase ==
    /\ inbound.event = "message"
    /\ IsPrivate(inbound)
    /\ ~BlankMsg(inbound)
    /\ HasTarget(inbound)

RoomCase ==
    /\ inbound.event = "message"
    /\ ~IsPrivate(inbound)
    /\ ~BlankMsg(inbound)

\* C1: after every connect and every disconnect the users list of the
\* active_users broadcast holds exactly the identities of the connections
\* that are open: each identity as many times as open connections carry it.
C1_PresenceIsExact ==
    inbound.event \in {"connect", "disconnect"} =>
        /\ Len(outbox) = 1
        /\ outbox[1].event = "active_users"
        /\ LET users == outbox[1].payload.users
           IN  \A n \in GuestNames \cup Range(users) :
                   Count(users, n) = Cardinality({c \in Open : session[c] = n})

C1_Witness ==
    /\ inbound.event = "disconnect"
    /\ log[1].text[2] # "unknown"
    /\ Len(connected) >= 1
    /\ outbox[1].payload.users = <<session[connected[1]]>>

\* C2: a private message to an identity no live Session carries emits
\* nothing; to an identity a live Session carries it emits exactly one
\* private_message, addressed to one such connection and reaching it alone.
C2_PrivateDelivery ==
    PrivateCase =>
        IF Holders(TargetOf(inbound)) = {}
        THEN outbox = <<>>
        ELSE /\ Len(outbox) = 1
             /\ outbox[1].event = "private_message"
             /\ outbox[1].to.kind = "sid"
             /\ \E c \in Holders(TargetOf(inbound)) :
                    /\ outbox[1].to.name = c
                    /\ outbox[1].recipients = {c}

C2_Witness ==
    /\ PrivateCase
    /\ Len(outbox) = 1
    /\ inbound.sid \notin outbox[1].recipients
    /\ outbox[1].recipients # {}
    /\ \E r \in CHAT_ROOMS : rooms[r] # {}

\* C3: a room message naming a configured room emits exactly one message
\* event that reaches exactly the members of that room, sender member or
\* not; naming any other room it emits nothing.
C3_RoomDelivery ==
    RoomCase =>
        IF Configured(EventRoom(inbound))
        THEN /\ Len(outbox) = 1
             /\ outbox[1].event = "message"
             /\ outbox[1].to = [kind |-> "room", name |-> EventRoom(inbound)]
             /\ outbox[1].recipients = rooms[EventRoom(inbound)]
        ELSE outbox = <<>>

C3_Witness ==
    /\ RoomCase
    /\ Len(outbox) = 1
    /\ outbox[1].recipients # {}
    /\ inbound.sid \notin outbox[1].recipients
    /\ EventRoom(inbound) = "Random"

\* C4: a join by a connected session naming a configured room sets the
\* Session's room to it and emits exactly one status event of type join
\* that reaches all members of the room after the join, the joiner included.
C4_JoinEffect ==
    (inbound.event = "join" /\ Configured(EventRoom(inbound))) =>
        /\ inbound.sid \in Holders(session[inbound.sid])
        /\ SessionRoom(inbound.sid) = EventRoom(inbound)
        /\ Len(outbox) = 1
        /\ outbox[1].event = "status"
        /\ outbox[1].payload.type = "join"
        /\ outbox[1].to = [kind |-> "room", name |-> EventRoom(inbound)]
        /\ outbox[1].recipients = rooms[EventRoom(inbound)]
        /\ inbound.sid \in outbox[1].recipients

C4_Witness ==
    /\ inbound.event = "join"
    /\ Configured(EventRoom(inbound))
    /\ Len(outbox) = 1
    /\ Cardinality(outbox[1].recipients) >= 2

\* C5: a join naming a room outside the configured set leaves every
\* Session and every room's member set as they were and emits nothing.
C5_JoinRejected ==
    [][(inbound'.event = "join" /\ ~Configured(EventRoom(inbound'))) =>
           /\ active_users' = active_users
           /\ rooms' = rooms
           /\ outbox' = <<>>]_vars

C5_Witness ==
    /\ inbound.event = "join"
    /\ ~Configured(EventRoom(inbound))
    /\ outbox = <<>>
    /\ SessionRoom(inbound.sid) = "Random"
    /\ rooms["General"] # {}

\* C6: every leave emits exactly one status event of type leave, whether
\* or not the connection was ever in the room; when the leave names a room
\* (its room is not null) the event is addressed to that room.
C6_LeaveAlwaysNotifies ==
    inbound.event = "leave" =>
        /\ Len(outbox) = 1
        /\ outbox[1].event = "status"
        /\ outbox[1].payload.type = "leave"
        /\ NamesRoom(inbound) =>
               outbox[1].to = [kind |-> "room", name |-> EventRoom(inbound)]

\* no connection can ever have been a member of a room that is not configured
C6_Witness ==
    /\ inbound.event = "leave"
    /\ ~Configured(EventRoom(inbound))
    /\ NamesRoom(inbound)
    /\ EventRoom(inbound) # inbound.sid
    /\ Len(outbox) = 1
    /\ outbox[1].payload.type = "leave"

\* C7: a disconnect for a connection id without a Session leaves the
\* registry as it was, logs no error and still emits exactly one
\* active_users broadcast.
C7_DisconnectUnknown ==
    [][(inbound'.event = "disconnect"
        /\ \A i \in 1..Len(active_users) : active_users[i].sid # inbound'.sid) =>
           /\ active_users' = active_users
           /\ Len(outbox') = 1
           /\ outbox'[1].event = "active_users"
           /\ outbox'[1].payload.users =
                  [i \in 1..Len(active_users) |-> active_users[i].username]
           /\ \A i \in 1..Len(log') : log'[i].level # "error"]_vars

C7_Witness ==
    /\ inbound.event = "disconnect"
    /\ log[1].text[2] = "unknown"
    /\ Len(active_users) >= 1
    /\ Len(outbox) = 1

\* C8: a message event whose msg is missing, empty or whitespace only emits
\* nothing and changes no state, whatever its type, room and target.
C8_BlankDropped ==
    [][(inbound'.event = "message" /\ BlankMsg(inbound')) =>
           /\ outbox' = <<>>
           /\ UNCHANGED core]_vars

C8_Witness ==
    /\ inbound.event = "message"
    /\ inbound.data.msg = {<<Space, Space>>}
    /\ IsPrivate(inbound)
    /\ HasTarget(inbound)
    /\ Holders(TargetOf(inbound)) # {}
    /\ outbox = <<>>

\* C9 as stated: join(R) then leave(R) by the same connection leaves it
\* with the rooms that reached it before the join and with no Session
\* room, and each of the two emits one status event.
C9_RoundTripRestores ==
    joined.left =>
        /\ RoomsOf(rooms, joined.sid) = joined.before
        /\ SessionRoom(joined.sid) = NoRoom
        /\ joined.status = 1
        /\ Len(outbox) = 1
        /\ StatusCount(outbox) = 1

\* C9 amended: join(R) then leave(R) by the same connection leaves it with
\* the rooms that reached it before the join except R, so with the same
\* rooms when it was not in R before the join; its Session has no room, and
\* each of the two emits one status event.
C9_RoundTripRemoves ==
    joined.left =>
        /\ RoomsOf(rooms, joined.sid) = joined.before \ {joined.room}
        /\ (joined.room \notin joined.before =>
                RoomsOf(rooms, joined.sid) = joined.before)
        /\ SessionRoom(joined.sid) = NoRoom
        /\ joined.status = 1
        /\ Len(outbox) = 1
        /\ StatusCount(outbox) = 1

C9_Witness ==
    /\ joined.left
    /\ inbound.event = "leave"
    /\ joined.room \notin joined.before
    /\ joined.before \cap CHAT_ROOMS # {}
    /\ RoomsOf(rooms, joined.sid) = joined.before

\* C10: when several live Sessions carry the target identity, the
\* private_message reaches exactly one of them: the first in registry
\* order, which is the one connected earliest among them.
C10_FirstMatchWins ==
    (PrivateCase /\ Cardinality(Holders(TargetOf(inbound))) >= 2) =>
        LET held == Holders(TargetOf(inbound))
            sids == [i \in 1..Len(active_users) |-> active_users[i].sid]
        IN  /\ Len(outbox) = 1
            /\ \E c \in held :
                   /\ outbox[1].recipients = {c}
                   /\ \A d \in held : Position(sids, c) <= Position(sids, d)
                   /\ \A d \in held :
                          Position(connected, c) <= Position(connected, d)

C10_Witness ==
    /\ PrivateCase
    /\ Cardinality(Holders(TargetOf(inbound))) >= 2
    /\ connected[1] = "sid2"
    /\ inbound.sid = "sid1"
    /\ Len(outbox) = 1
    /\ outbox[1].recipients = {"sid2"}

\* C11: every Session that has a room has one of the configured rooms,
\* whatever connect, disconnect, join, leave and message events were served.
C11_RoomsConfigured ==
    \A i \in 1..Len(active_users) :
        active_users[i].room # NoRoom => Configured(active_users[i].room)

\* a Session moved from one configured room to another
C11_Witness ==
    /\ inbound.event = "join"
    /\ Configured(EventRoom(inbound))
    /\ prior.room # NoRoom
    /\ prior.room # EventRoom(inbound)
    /\ SessionRoom(inbound.sid) = EventRoom(inbound)

\* the connections a broadcast to room r reaches
Reached(r) == Recipients([kind |-> "room", name |-> r], connected, rooms)

\* the connections whose Session's room is r
SessionsIn(r) == {active_users[i].sid :
                      i \in {j \in 1..Len(active_users) :
                                 active_users[j].room = r}}

\* C12 as stated: for every room the connections a broadcast to it reaches
\* are exactly the connections whose Session's room is that room.
C12_MembershipFromSessions ==
    \A r \in RoomNames : Reached(r) = SessionsIn(r)

\* C12 amended: for every room the connections whose Session's room is that
\* room are among the connections a broadcast to it reaches, and every
\* connection it reaches is open; a broadcast may also reach connections
\* whose Session names another room or none.
C12_SessionsAreMembers ==
    /\ \A i \in 1..Len(active_users) :
           active_users[i].room # NoRoom =>
               active_users[i].sid \in Reached(active_users[i].room)
    /\ \A r \in RoomNames : Reached(r) \subseteq Open

\* one room reaches a connection whose Session names it and another
\* connection whose Session names a different room
C12_Witness ==
    \E r \in RoomNames :
        /\ SessionsIn(r) # {}
        /\ \E c \in Reached(r) \ SessionsIn(r) :
               /\ SessionRoom(c) # NoRoom
               /\ SessionRoom(c) # r

\* C13: a disconnect emits the active_users broadcast and nothing else,
\* whether or not the connection was in a room; a status event of type
\* leave is emitted only while an explicit leave is served.
C13_DisconnectEmitsNoStatus ==
    /\ inbound.event = "disconnect" =>
           /\ Len(outbox) = 1
           /\ outbox[1].event = "active_users"
    /\ \A i \in 1..Len(outbox) :
           (outbox[i].event = "status" /\ outbox[i].payload.type = "leave")
               => inbound.event = "leave"

\* the disconnected connection was in a room that still has a member
C13_Witness ==
    /\ inbound.event = "disconnect"
    /\ prior.room # NoRoom
    /\ prior.room \in prior.rooms
    /\ rooms[prior.room] # {}
    /\ Len(outbox) = 1

\* C14: a leave naming a room whose broadcasts did not reach the connection
\* changes nothing of its membership: its Session's room and the set of
\* rooms whose broadcasts reach it are the same after the leave as before.
C14_LeaveByNonMemberIsNoOp ==
    (inbound.event = "leave" /\ EventRoom(inbound) \notin prior.rooms) =>
        /\ RoomsOf(rooms, inbound.sid) = prior.rooms
        /\ SessionRoom(inbound.sid) = prior.room

\* C15: a join of a configured room adds that room to the rooms whose
\* broadcasts reach the connection and takes none away, and makes it the
\* Session's room; a connection stops being reached by a room's broadcasts
\* only through its own leave of that room or its own disconnect.
C15_JoinDoesNotLeave ==
    [][/\ (inbound'.event = "join" /\ Configured(EventRoom(inbound'))) =>
              \E c \in SIDS :
                  /\ c = inbound'.sid
                  /\ RoomsOf(rooms', c) =
                         RoomsOf(rooms, c) \cup {EventRoom(inbound')}
                  /\ SessionRoom(c)' = EventRoom(inbound')
       /\ rooms' # rooms =>
              \A r \in RoomNames :
                  rooms[r] \ rooms'[r] # {} =>
                      /\ rooms[r] \ rooms'[r] = {inbound'.sid}
                      /\ \/ inbound'.event = "disconnect"
                         \/ /\ inbound'.event = "leave"
                            /\ EventRoom(inbound') = r]_vars

\* a message to the room joined first reaches a connection whose Session
\* names the room it joined after it
C15_Witness ==
    /\ RoomCase
    /\ Len(outbox) = 1
    /\ \E c \in outbox[1].recipients :
           /\ SessionRoom(c) # NoRoom
           /\ SessionRoom(c) # EventRoom(inbound)
           /\ SessionRoom(c) \in RoomsOf(rooms, c)

\* C16: serving a message event, delivered or dropped, changes neither the
\* registry nor any room's member set nor the open connections: no Session
\* is added or removed and none changes identity, room or connect time.
C16_MessageKeepsState ==
    [][inbound'.event = "message" =>
           /\ active_users' = active_users
           /\ rooms' = rooms
           /\ connected' = connected
           /\ session' = session]_vars

\* a private message was delivered while its sender was in two rooms
C16_Witness ==
    /\ PrivateCase
    /\ Len(outbox) = 1
    /\ outbox[1].event = "private_message"
    /\ SessionRoom(inbound.sid) # NoRoom
    /\ Cardinality(RoomsOf(rooms, inbound.sid) \cap CHAT_ROOMS) >= 2

\* C19: the users list of every active_users broadcast has one entry per
\* live Session, in the order in which the connections still open were
\* established; an identity shared by several Sessions appears once per
\* Session, so the list is as long as there are open connections.
C19_SnapshotInRegistryOrder ==
    \A k \in 1..Len(outbox) :
        outbox[k].event = "active_users" =>
            LET users == outbox[k].payload.users
            IN  /\ Len(users) = Len(active_users)
                /\ Len(users) = Cardinality(Open)
                /\ \A i \in 1..Len(users) :
                       /\ active_users[i].sid = connected[i]
                       /\ users[i] = session[connected[i]]

\* the connection opened first closed and came back: it is listed last
C19_Witness ==
    /\ inbound.event = "connect"
    /\ Len(outbox) = 1
    /\ connected = <<"sid2", "sid1">>
    /\ outbox[1].payload.users = <<session["sid2"], session["sid1"]>>
    /\ session["sid1"] # session["sid2"]

\* C20: the status event of a leave naming a room reaches exactly the
\* connections that are members of the named room once the leaving
\* connection is removed from it: never the leaving connection, and nobody
\* when none remains.
C20_LeaveNoticeSkipsLeaver ==
    (inbound.event = "leave" /\ NamesRoom(inbound)) =>
        \A k \in 1..Len(outbox) :
            outbox[k].event = "status" =>
                /\ outbox[k].recipients = rooms[EventRoom(inbound)]
                /\ inbound.sid \notin outbox[k].recipients
                /\ (rooms[EventRoom(inbound)] = {} =>
                        outbox[k].recipients = {})

\* a member left a room in which another connection remains
C20_Witness ==
    /\ inbound.event = "leave"
    /\ EventRoom(inbound) \in prior.rooms
    /\ Len(outbox) = 1
    /\ outbox[1].recipients # {}
    /\ inbound.sid \notin outbox[1].recipients

\* The handler that ends with the step: what it had done before the step.
Ending ==
    IF inbound'.event = "disconnect" THEN Task(inbound'.sid, "close")
    ELSE Task(inbound'.sid, "event")

\* the step ends a handler in its except clause
Faulted == \E i \in 1..Len(log') : log'[i].level = "error"

\* the connection the step serves is open and no other handler of it is in
\* flight: its own events are served one at a time
ServedAlone ==
    /\ inbound'.sid \in Open
    /\ IF inbound'.event = "disconnect"
       THEN Task(inbound'.sid, "event") = NoTask
       ELSE Task(inbound'.sid, "close") = NoTask

\* C17: an event whose handler ends in a fault is dropped as a whole: the
\* handler has emitted nothing, has written no Session and has changed no
\* room's member set, whatever the event (a join naming a configured room
\* for a connection without a Session included).
C17_FaultedEventIsDropped ==
    [][(Faulted /\ ServedAlone) =>
           /\ outbox' = <<>>
           /\ "emit" \notin Ending.did
           /\ "session" \notin Ending.did
           /\ "room" \notin Ending.did]_vars

\* C18: handlers are atomic with respect to each other: what they emit is
\* what an execution serving one event at a time emits.  In every such
\* execution the snapshot emitted by the connect of a connection that has
\* not closed since ends with the identity of the connecting Session, and
\* a private_message sent by one connection to another is addressed to a
\* connection that has a Session.
C18_HandlersAppearAtomic ==
    \A k \in 1..Len(outbox) :
        /\ (/\ inbound.event = "connect"
            /\ outbox[k].event = "active_users"
            /\ inbound.sid \in Open
            /\ Holders(session[inbound.sid]) # {}
            /\ inbound.sid \in Holders(session[inbound.sid])) =>
               LET users == outbox[k].payload.users
               IN  /\ users # <<>>
                   /\ users[Len(users)] = session[inbound.sid]
        /\ (/\ outbox[k].event = "private_message"
            /\ outbox[k].to.name # inbound.sid) =>
               \E i \in 1..Len(active_users) :
                   active_users[i].sid = outbox[k].to.name

====
